---- MODULE Spec2Model ----
(***************************************************************************)
(* Model of WebCore's Qt pasteboard (Source/WebCore/platform/qt/           *)
(* PasteboardQt.cpp): pasteboard instances, the QMimeData buffers they     *)
(* point to, and the host clipboard (QClipboard) with its two targets.     *)
(***************************************************************************)
EXTENDS Integers, Sequences, FiniteSets, TLC

VARIABLES
    insts,   \* the Pasteboard objects: fields m_selectionMode, m_readableData, ...
    heap,    \* the QMimeData objects: allocation state and typed entries
    host,    \* QGuiApplication::clipboard(): the data held per target
    last,    \* the last call made and what it returned
    fault    \* "none", or how the process left defined behaviour

vars == <<insts, heap, host, last, fault>>

----------------------------------------------------------------------------
(* Bounds of the model *)

MaxInst == 2
MaxBuf == 2

Inst == 1..MaxInst
Buf == 1..MaxBuf
NULL == 0

----------------------------------------------------------------------------
(* Strings are sequences of UTF-16 code units *)

NBSP == 160
SPACE == 32
BOM == 65279
BOMSwapped == 65534

EmptyString == << >>

(* a replacement that stops after the first U+00A0 *)
replaceFirstNbsp(s) ==
    IF \E k \in 1..Len(s) : s[k] = NBSP
    THEN LET k == CHOOSE n \in 1..Len(s) :
                      s[n] = NBSP /\ \A m \in 1..(n - 1) : s[m] # NBSP
         IN  [s EXCEPT ![k] = SPACE]
    ELSE s

(* QString::replace(QChar(0xa0), QLatin1Char(' ')) *)
RECURSIVE replaceNbsp(_)
replaceNbsp(s) ==
    IF s = << >> THEN << >>
    ELSE <<(IF Head(s) = NBSP THEN SPACE ELSE Head(s))>> \o replaceNbsp(Tail(s))

(* QByteArray(reinterpret_cast<const char*>(data.characters16()), length * 2):
   two bytes per code unit, low byte first (native order of the host CPU) *)
RECURSIVE toBytes(_)
toBytes(s) ==
    IF s = << >> THEN << >>
    ELSE <<Head(s) % 256, Head(s) \div 256>> \o toBytes(Tail(s))

(* the code units of a byte array read in native order / in swapped order *)
RECURSIVE unitsNative(_)
unitsNative(b) ==
    IF Len(b) < 2 THEN << >>
    ELSE <<b[1] + 256 * b[2]>> \o unitsNative(Tail(Tail(b)))

RECURSIVE unitsSwapped(_)
unitsSwapped(b) ==
    IF Len(b) < 2 THEN << >>
    ELSE <<b[2] + 256 * b[1]>> \o unitsSwapped(Tail(Tail(b)))

(* QTextCodec::codecForName("UTF-16")->toUnicode(rawData): the codec looks at
   the first code unit; a byte order mark is consumed and selects the byte
   order of the rest, anything else is decoded in native order *)
toUnicodeUtf16(b) ==
    IF Len(b) < 2 THEN << >>
    ELSE IF unitsNative(b)[1] = BOM THEN Tail(unitsNative(b))
    ELSE IF unitsNative(b)[1] = BOMSwapped THEN Tail(unitsSwapped(b))
    ELSE unitsNative(b)

----------------------------------------------------------------------------
(* Type identifiers are sequences of tokens; the identifier is their
   concatenation *)

TextPlain == <<"text/plain">>
TextHtml == <<"text/html">>
TextPlainCharset == <<"text/plain", ";", "charset=utf-8">>
TextHtmlCharset == <<"text/html", ";", " charset=utf-8">>
UriList == <<"text/uri-list">>
SmartPaste == <<"application/vnd.qtwebkit.smartpaste">>
CustomType == <<"application/x-custom">>
TextHtmlLookalike == <<"text/html", "5">>
TextPlainLookalike == <<"text/plain", "s">>

startsWith(s, p) == Len(s) >= Len(p) /\ SubSeq(s, 1, Len(p)) = p

isTextMimeType(type) ==
    type = TextPlain \/ startsWith(type, <<"text/plain", ";">>)

(* a comparison that knows only the bare identifier *)
isHtmlMimeTypeExact(type) == type = TextHtml

isHtmlMimeType(type) ==
    type = TextHtml \/ startsWith(type, <<"text/html", ";">>)

----------------------------------------------------------------------------
(* QMimeData: a function from the formats present to their payloads.  A
   payload is text (setText, setHtml), bytes (setData) or a URL list. *)

EmptyMime == << >>

formats(d) == DOMAIN d

hasFormat(d, type) == type \in DOMAIN d

setEntry(d, type, p) ==
    [f \in (DOMAIN d) \cup {type} |-> IF f = type THEN p ELSE d[f]]

setText(d, s) == setEntry(d, TextPlain, [kind |-> "text", val |-> s])

setHtml(d, s) == setEntry(d, TextHtml, [kind |-> "text", val |-> s])

setData(d, type, bytes) == setEntry(d, type, [kind |-> "bytes", val |-> bytes])

setUrls(d, urls) == setEntry(d, UriList, [kind |-> "urls", val |-> urls])

removeFormat(d, type) == [f \in (DOMAIN d) \ {type} |-> d[f]]

hasHtml(d) == hasFormat(d, TextHtml)

hasUrls(d) == hasFormat(d, UriList)

hasText(d) == hasFormat(d, TextPlain) \/ hasUrls(d)

html(d) == IF hasHtml(d) THEN d[TextHtml].val ELSE EmptyString

(* a URL is a scheme and a path; its string is scheme ":" path *)
schemeUnits(scheme) ==
    IF scheme = "file" THEN <<102, 105, 108, 101>> ELSE <<104, 116, 116, 112, 115>>

urlString(u) == schemeUnits(u.scheme) \o <<58>> \o u.path

RECURSIVE urlLines(_)
urlLines(urls) ==
    IF urls = << >> THEN << >>
    ELSE IF Len(urls) = 1 THEN urlString(urls[1])
    ELSE urlString(urls[1]) \o <<10>> \o urlLines(Tail(urls))

(* QMimeData::text(): the text entry, else the URL list as lines *)
text(d) ==
    IF hasFormat(d, TextPlain) THEN d[TextPlain].val
    ELSE IF hasUrls(d) THEN urlLines(d[UriList].val)
    ELSE EmptyString

urls(d) == IF hasUrls(d) THEN d[UriList].val ELSE << >>

(* QMimeData::data(type): the bytes stored under the literal format (the
   formats read this way in this model hold bytes or are absent) *)
data(d, type) ==
    IF hasFormat(d, type) /\ d[type].kind = "bytes" THEN d[type].val ELSE << >>

----------------------------------------------------------------------------
(* Inputs of the operations *)

FileUrl == [scheme |-> "file", path |-> <<47, 97>>]
FileUrlB == [scheme |-> "file", path |-> <<47, 98>>]
HttpsUrl == [scheme |-> "https", path |-> <<47, 47, 97>>]

(* what another application may have left on the clipboard before start *)
HostInitData ==
    { setHtml(setText(EmptyMime, <<97>>), <<60, 98, 62>>),
      setData(setText(EmptyMime, <<97>>), SmartPaste, << >>) }

(* payloads a drag operation may carry (DragData::platformData()) *)
DragPayloads ==
    { setText(EmptyMime, <<97, 98, 99>>),
      setUrls(setHtml(EmptyMime, <<60, 98, 62>>), <<FileUrl, HttpsUrl>>) }

(* The inputs the operations are called with:
   texts    texts handed to writePlainText / selected by the editor
   markups  markup produced by createMarkup
   urls     URLs handed to write(PasteboardURL)
   writes   <<type, string>> pairs handed to writeString
   reads    types handed to readString
   clears   types handed to clear(type)
   payloads payloads handed to createForDragAndDrop(dragData) *)
Inputs ==
    [texts |-> {<<97, NBSP>>},
     markups |-> {<<60, 98, 62>>},
     urls |-> {FileUrl},
     writes |-> {<<TextPlain, <<97>>>>, <<CustomType, <<97>>>>},
     reads |-> {TextPlain, CustomType},
     clears |-> {TextPlain, CustomType},
     payloads |-> DragPayloads]

DataInputs ==
    [texts |-> {<<97>>, <<97, NBSP>>, <<NBSP, NBSP>>},
     markups |-> {<<60, 98, 62>>},
     urls |-> {FileUrl, HttpsUrl},
     writes |-> {<<TextPlain, <<97, NBSP>>>>, <<TextHtml, <<60, 98, 62>>>>}
                \cup ({CustomType} \X {EmptyString, <<97>>, <<BOM, 97>>, <<BOMSwapped, 97>>}),
     reads |-> {TextPlain, TextHtml, CustomType},
     clears |-> {TextPlain, CustomType},
     payloads |-> DragPayloads]

TypeInputs ==
    [texts |-> {<<97>>},
     markups |-> {<<60, 98, 62>>},
     urls |-> {HttpsUrl},
     writes |-> {<<TextPlain, <<97>>>>, <<TextHtml, <<60, 98, 62>>>>,
                 <<TextPlainCharset, <<98>>>>, <<TextHtmlCharset, <<60, 105, 62>>>>,
                 <<TextHtmlLookalike, <<99>>>>},
     reads |-> {TextPlain, TextHtml, TextPlainCharset, TextHtmlCharset,
                TextHtmlLookalike, TextPlainLookalike},
     clears |-> {TextPlain, TextHtmlLookalike},
     payloads |-> DragPayloads
                  \cup {setUrls(EmptyMime, <<HttpsUrl, FileUrlB, FileUrl>>)}]

----------------------------------------------------------------------------
(* State *)

NoInst ==
    [st |-> "none", kind |-> "none", m_selectionMode |-> FALSE,
     m_readableData |-> NULL, m_writableData |-> NULL,
     m_isForDragAndDrop |-> FALSE]

NoBuf == [st |-> "unalloc", data |-> EmptyMime, freedBy |-> "none"]

Call(op, i, arg, res) == [op |-> op, inst |-> i, arg |-> arg, res |-> res]

Init ==
    /\ insts = [i \in Inst |-> NoInst]
    /\ \/ /\ heap = [b \in Buf |-> NoBuf]
          /\ host = [Clipboard |-> NULL, Selection |-> NULL]
       \/ \E d \in HostInitData :
             /\ heap = [b \in Buf |-> IF b = 1 THEN [NoBuf EXCEPT !.st = "live", !.data = d]
                                      ELSE NoBuf]
             /\ host = [Clipboard |-> 1, Selection |-> NULL]
    /\ last = Call("init", NULL, NULL, NULL)
    /\ fault = "none"

Live(i) == fault = "none" /\ insts[i].st = "live"

(* instances are numbered in the order of their construction *)
Unborn(i) ==
    /\ fault = "none"
    /\ insts[i].st = "none"
    /\ \A j \in 1..(i - 1) : insts[j].st # "none"

(* new QMimeData: the next unused buffer *)
CanAlloc == \E b \in Buf : heap[b].st = "unalloc"

NewBuf == CHOOSE b \in Buf : heap[b].st = "unalloc" /\ \A c \in 1..(b - 1) : heap[c].st # "unalloc"

Alloc(hp, b, d) == [hp EXCEPT ![b] = [NoBuf EXCEPT !.st = "live", !.data = d]]

(* delete: the buffer is released and its content is gone; who released it
   (an instance or the host) is kept for the ownership properties *)
Free(hp, b, who) ==
    IF b = NULL THEN hp
    ELSE [hp EXCEPT ![b] = [NoBuf EXCEPT !.st = "freed", !.freedBy = who]]

Dangling(b) == b # NULL /\ heap[b].st = "freed"

(* the step taken when the call runs to its end *)
Commit(ni, nh, nho, nl) ==
    /\ insts' = ni
    /\ heap' = nh
    /\ host' = nho
    /\ last' = nl
    /\ fault' = "none"

(* the step taken when the call fails an assertion, deletes a buffer twice
   or uses a deleted buffer: fault names which; the process has then left
   defined behaviour and its objects are not followed further *)
Abort(kind, op, i) ==
    /\ fault' = kind
    /\ last' = Call("abort", i, op, kind)
    /\ insts' = [j \in Inst |-> NoInst]
    /\ heap' = [b \in Buf |-> NoBuf]
    /\ host' = [Clipboard |-> NULL, Selection |-> NULL]

(* a call either runs to its end, or meets the undefined behaviour `kind` *)
Run(undefined, kind, op, i, ni, nh, nho, nl) ==
    \/ ~undefined /\ Commit(ni, nh, nho, nl)
    \/ undefined /\ Abort(kind, op, i)

----------------------------------------------------------------------------
(* The host clipboard (QClipboard) *)

(* QClipboard::mimeData(mode) *)
mimeData(mode) == host[mode]

(* the entries the host reports for a target; none when it holds nothing *)
hostData(mode) == IF host[mode] = NULL THEN EmptyMime ELSE heap[host[mode]].data

(* QClipboard::setMimeData(src, mode): the host takes ownership of src and
   deletes what it held, unless it already holds src *)
hostAfterSet(src, mode) == [host EXCEPT ![mode] = src]

heapAfterSet(hp, src, mode) ==
    IF host[mode] = src THEN hp ELSE Free(hp, host[mode], "host")

HostDoubleFree(src, mode) == host[mode] # src /\ Dangling(host[mode])

----------------------------------------------------------------------------
(* Pasteboard: accessors *)

isForDragAndDrop(p) == p.m_isForDragAndDrop

isForCopyAndPaste(p) == ~p.m_isForDragAndDrop

clipboardData(p) == p.m_writableData

(* a target choice that ignores m_selectionMode *)
targetAlwaysClipboard(p) == "Clipboard"

targetOf(p) == IF p.m_selectionMode THEN "Selection" ELSE "Clipboard"

(* ASSERT(!(m_readableData && m_writableData)) *)
AssertFails(p) == p.m_readableData # NULL /\ p.m_writableData # NULL

(* a readData that falls back to the host clipboard when no binding is set *)
readDataOrHost(p) ==
    IF p.m_readableData # NULL THEN p.m_readableData
    ELSE IF p.m_writableData # NULL THEN p.m_writableData
    ELSE mimeData("Clipboard")

readData(p) ==
    IF p.m_readableData # NULL THEN p.m_readableData ELSE p.m_writableData

----------------------------------------------------------------------------
(* Pasteboard: construction and destruction *)

Pasteboard(readableClipboard, isDrag, how) ==
    [st |-> "live", kind |-> how, m_selectionMode |-> FALSE,
     m_readableData |-> readableClipboard, m_writableData |-> NULL,
     m_isForDragAndDrop |-> isDrag]

CreateForCopyAndPaste(i) ==
    /\ Unborn(i)
    /\ Commit([insts EXCEPT ![i] = Pasteboard(mimeData("Clipboard"), FALSE, "copyAndPaste")],
              heap, host, Call("createForCopyAndPaste", i, NULL, NULL))

CreateForGlobalSelection(i) ==
    /\ Unborn(i)
    /\ Commit([insts EXCEPT ![i] =
                  [Pasteboard(mimeData("Clipboard"), FALSE, "globalSelection")
                      EXCEPT !.m_selectionMode = TRUE]],
              heap, host, Call("createForGlobalSelection", i, NULL, NULL))

CreatePrivate(i) ==
    /\ Unborn(i)
    /\ Commit([insts EXCEPT ![i] = Pasteboard(NULL, FALSE, "private")],
              heap, host, Call("createPrivate", i, NULL, NULL))

CreateForDragAndDrop(i) ==
    /\ Unborn(i)
    /\ Commit([insts EXCEPT ![i] = Pasteboard(NULL, TRUE, "dragAndDrop")],
              heap, host, Call("createForDragAndDrop", i, NULL, NULL))

(* the payload is a QMimeData of the drag in flight, owned by its provider *)
CreateForDragAndDropData(i, payload) ==
    /\ Unborn(i)
    /\ CanAlloc
    /\ Commit([insts EXCEPT ![i] = Pasteboard(NewBuf, TRUE, "dragAndDrop")],
              Alloc(heap, NewBuf, payload), host,
              Call("createForDragAndDrop", i, payload, NULL))

(* a destructor that deletes the writable buffer in every mode *)
DestroyDeletesAlways(i) ==
    LET p == insts[i]
        w == p.m_writableData
    IN  /\ Live(i)
        /\ Run(Dangling(w), "double-free", "destroy", i,
               [insts EXCEPT ![i] = [NoInst EXCEPT !.st = "dead"]],
               Free(heap, w, "instance"),
               host, Call("destroy", i, p.kind, w))

Destroy(i) ==
    LET p == insts[i]
        w == p.m_writableData
        keep == w # NULL /\ isForCopyAndPaste(p)
    IN  /\ Live(i)
        /\ Run(~keep /\ Dangling(w), "double-free", "destroy", i,
               [insts EXCEPT ![i] = [NoInst EXCEPT !.st = "dead"]],
               IF keep THEN heap ELSE Free(heap, w, "instance"),
               host, Call("destroy", i, p.kind, w))

----------------------------------------------------------------------------
(* Write protocol *)

(* QGuiApplication::clipboard()->setMimeData(md, target) for a new md *)
PushNew(i, md, op, arg) ==
    LET mode == targetOf(insts[i])
        b == NewBuf
    IN  /\ CanAlloc
        /\ Run(HostDoubleFree(b, mode), "double-free", op, i,
               insts, heapAfterSet(Alloc(heap, b, md), b, mode),
               hostAfterSet(b, mode), Call(op, i, arg, NULL))

selectionMime(selectedText, markup, canSmartCopyOrDelete) ==
    LET md == setHtml(setText(EmptyMime, replaceNbsp(selectedText)), markup)
    IN  IF canSmartCopyOrDelete THEN setData(md, SmartPaste, << >>) ELSE md

WriteSelection(i, selectedText, markup, canSmartCopyOrDelete) ==
    /\ Live(i)
    /\ PushNew(i, selectionMime(selectedText, markup, canSmartCopyOrDelete),
               "writeSelection", <<selectedText, canSmartCopyOrDelete>>)

(* writePlainText without the replacement of U+00A0 *)
plainTextMimeKeepsNbsp(t, canSmartReplaceOption) ==
    LET md == setText(EmptyMime, t)
    IN  IF canSmartReplaceOption THEN setData(md, SmartPaste, << >>) ELSE md

plainTextMime(t, canSmartReplaceOption) ==
    LET md == setText(EmptyMime, replaceNbsp(t))
    IN  IF canSmartReplaceOption THEN setData(md, SmartPaste, << >>) ELSE md

WritePlainText(i, t, canSmartReplaceOption) ==
    /\ Live(i)
    /\ PushNew(i, plainTextMime(t, canSmartReplaceOption),
               "writePlainText", <<t, canSmartReplaceOption>>)

urlMime(url) == setUrls(setText(EmptyMime, urlString(url)), <<url>>)

WriteURL(i, url) ==
    /\ Live(i)
    /\ PushNew(i, urlMime(url), "writeURL", url)

WriteString(i, type, str) ==
    LET p == insts[i]
        fresh == p.m_writableData = NULL
        w == IF fresh THEN NewBuf ELSE p.m_writableData
        hp == IF fresh THEN Alloc(heap, w, EmptyMime) ELSE heap
        d == hp[w].data
        nd == IF isTextMimeType(type) THEN setText(d, str)
              ELSE IF isHtmlMimeType(type) THEN setHtml(d, str)
              ELSE setData(d, type, toBytes(str))
    IN  /\ Live(i)
        /\ fresh => CanAlloc
        /\ Run(Dangling(p.m_writableData), "use-after-free", "writeString", i,
               [insts EXCEPT ![i].m_writableData = w],
               [hp EXCEPT ![w].data = nd], host,
               Call("writeString", i, <<type, str>>, NULL))

(* clear(type) that pushes to the host only while a writable buffer is left *)
ClearTypePushesOnlyData(i, type) ==
    LET p == insts[i]
        w == p.m_writableData
        nd == removeFormat(heap[w].data, type)
        emptied == w # NULL /\ formats(nd) = {}
        hp1 == IF w = NULL THEN heap ELSE [heap EXCEPT ![w].data = nd]
        hp2 == IF emptied /\ isForDragAndDrop(p) THEN Free(hp1, w, "instance") ELSE hp1
        nw == IF emptied THEN NULL ELSE w
        push == isForCopyAndPaste(p) /\ nw # NULL
    IN  /\ Live(i)
        /\ IF Dangling(w)
           THEN Abort("use-after-free", "clearType", i)
           ELSE Run(push /\ HostDoubleFree(nw, "Clipboard"),
                    "double-free", "clearType", i,
                    [insts EXCEPT ![i].m_writableData = nw],
                    IF push THEN heapAfterSet(hp2, nw, "Clipboard") ELSE hp2,
                    IF push THEN hostAfterSet(nw, "Clipboard") ELSE host,
                    Call("clearType", i, type, w))

ClearType(i, type) ==
    LET p == insts[i]
        w == p.m_writableData
        nd == removeFormat(heap[w].data, type)
        emptied == w # NULL /\ formats(nd) = {}
        hp1 == IF w = NULL THEN heap ELSE [heap EXCEPT ![w].data = nd]
        hp2 == IF emptied /\ isForDragAndDrop(p) THEN Free(hp1, w, "instance") ELSE hp1
        nw == IF emptied THEN NULL ELSE w
    IN  /\ Live(i)
        /\ IF Dangling(w)
           THEN Abort("use-after-free", "clearType", i)
           ELSE Run(isForCopyAndPaste(p) /\ HostDoubleFree(nw, "Clipboard"),
                    "double-free", "clearType", i,
                    [insts EXCEPT ![i].m_writableData = nw],
                    IF isForCopyAndPaste(p) THEN heapAfterSet(hp2, nw, "Clipboard") ELSE hp2,
                    IF isForCopyAndPaste(p) THEN hostAfterSet(nw, "Clipboard") ELSE host,
                    Call("clearType", i, type, w))

(* a clear() that only drops the handle *)
ClearAllDropsOnly(i) ==
    /\ Live(i)
    /\ Commit([insts EXCEPT ![i].m_writableData = NULL], heap, host,
              Call("clear", i, NULL, insts[i].m_writableData))

ClearAll(i) ==
    LET p == insts[i]
        w == p.m_writableData
    IN  /\ Live(i)
        /\ Run(IF isForCopyAndPaste(p) THEN HostDoubleFree(NULL, "Clipboard")
               ELSE Dangling(w),
               "double-free", "clear", i,
               [insts EXCEPT ![i].m_writableData = NULL],
               IF isForCopyAndPaste(p) THEN heapAfterSet(heap, NULL, "Clipboard")
               ELSE Free(heap, w, "instance"),
               IF isForCopyAndPaste(p) THEN hostAfterSet(NULL, "Clipboard") ELSE host,
               Call("clear", i, NULL, w))

WritePasteboard(i, source) ==
    LET src == clipboardData(insts[source])
    IN  /\ Live(i)
        /\ Live(source)
        /\ Run(HostDoubleFree(src, "Clipboard"), "double-free", "writePasteboard", i,
               insts, heapAfterSet(heap, src, "Clipboard"),
               hostAfterSet(src, "Clipboard"),
               Call("writePasteboard", i, source, src))

----------------------------------------------------------------------------
(* Read protocol: what each read returns in the current state *)

hasData(p) ==
    IF readData(p) = NULL THEN FALSE
    ELSE Cardinality(formats(heap[readData(p)].data)) > 0

types(p) ==
    IF readData(p) = NULL THEN {} ELSE formats(heap[readData(p)].data)

readString(p, type) ==
    IF readData(p) = NULL THEN EmptyString
    ELSE LET d == heap[readData(p)].data
         IN  IF isHtmlMimeType(type) /\ hasHtml(d) THEN html(d)
             ELSE IF isTextMimeType(type) /\ hasText(d) THEN text(d)
             ELSE toUnicodeUtf16(data(d, type))

(* a conversion that takes the path of every URL, whatever its scheme *)
localFilesOfAllSchemes(us) == [k \in 1..Len(us) |-> us[k].path]

RECURSIVE localFiles(_)
localFiles(us) ==
    IF us = << >> THEN << >>
    ELSE IF Head(us).scheme # "file" THEN localFiles(Tail(us))
    ELSE <<Head(us).path>> \o localFiles(Tail(us))

readFilenames(p) ==
    IF readData(p) = NULL THEN << >> ELSE localFiles(urls(heap[readData(p)].data))

canSmartReplace == hasFormat(hostData("Clipboard"), SmartPaste)

readPlainText(p) == text(hostData(targetOf(p)))

(* createFragmentFromMarkup / createFragmentFromText may give no fragment *)
NoFragment == [from |-> "none", source |-> EmptyString]

(* documentFragment reading the instance's own binding instead of the host *)
documentFragmentOfBinding(p, allowPlainText, markupParses, textBuilds) ==
    LET md == IF readData(p) = NULL THEN EmptyMime ELSE heap[readData(p)].data
    IN  IF hasHtml(md) /\ html(md) # EmptyString /\ markupParses
        THEN [fragment |-> [from |-> "markup", source |-> html(md)],
              chosePlainText |-> FALSE]
        ELSE IF allowPlainText /\ hasText(md)
        THEN [fragment |-> IF textBuilds THEN [from |-> "text", source |-> text(md)]
                           ELSE NoFragment,
              chosePlainText |-> TRUE]
        ELSE [fragment |-> NoFragment, chosePlainText |-> FALSE]

documentFragment(p, allowPlainText, markupParses, textBuilds) ==
    LET md == hostData(targetOf(p))
    IN  IF hasHtml(md) /\ html(md) # EmptyString /\ markupParses
        THEN [fragment |-> [from |-> "markup", source |-> html(md)],
              chosePlainText |-> FALSE]
        ELSE IF allowPlainText /\ hasText(md)
        THEN [fragment |-> IF textBuilds THEN [from |-> "text", source |-> text(md)]
                           ELSE NoFragment,
              chosePlainText |-> TRUE]
        ELSE [fragment |-> NoFragment, chosePlainText |-> FALSE]

(* The reads as steps: a read changes nothing, unless it stops at the
   assertion of readData (a build with assertions; without them the readable
   binding is read) or uses a deleted buffer *)
ReadThrough(p, op, i) ==
    \/ ~Dangling(readData(p)) /\ UNCHANGED vars
    \/ AssertFails(p) /\ Abort("assertion", op, i)
    \/ Dangling(readData(p)) /\ Abort("use-after-free", op, i)

ReadHost(mode, op, i) ==
    \/ ~Dangling(host[mode]) /\ UNCHANGED vars
    \/ Dangling(host[mode]) /\ Abort("use-after-free", op, i)

HasData(i) ==
    /\ Live(i)
    /\ ReadThrough(insts[i], "hasData", i)

Types(i) ==
    /\ Live(i)
    /\ ReadThrough(insts[i], "types", i)

ReadString(i, type) ==
    /\ Live(i)
    /\ ReadThrough(insts[i], "readString", i)

ReadFilenames(i) ==
    /\ Live(i)
    /\ ReadThrough(insts[i], "readFilenames", i)

CanSmartReplace(i) ==
    /\ Live(i)
    /\ ReadHost("Clipboard", "canSmartReplace", i)

ReadPlainText(i) ==
    /\ Live(i)
    /\ ReadHost(targetOf(insts[i]), "read", i)

DocumentFragment(i, allowPlainText) ==
    /\ Live(i)
    /\ ReadHost(targetOf(insts[i]), "documentFragment", i)

----------------------------------------------------------------------------
(* Specification *)

Ops(I, in) ==
    \/ \E i \in I : CreateForCopyAndPaste(i)
    \/ \E i \in I : CreateForGlobalSelection(i)
    \/ \E i \in I : CreatePrivate(i)
    \/ \E i \in I : CreateForDragAndDrop(i)
    \/ \E i \in I, d \in in.payloads : CreateForDragAndDropData(i, d)
    \/ \E i \in I : Destroy(i)
    \/ \E i \in I, t \in in.texts, m \in in.markups, smart \in BOOLEAN :
          WriteSelection(i, t, m, smart)
    \/ \E i \in I, t \in in.texts, smart \in BOOLEAN : WritePlainText(i, t, smart)
    \/ \E i \in I, u \in in.urls : WriteURL(i, u)
    \/ \E i \in I, w \in in.writes : WriteString(i, w[1], w[2])
    \/ \E i \in I, type \in in.clears : ClearType(i, type)
    \/ \E i \in I : ClearAll(i)
    \/ \E i \in I, source \in I : WritePasteboard(i, source)
    \/ \E i \in I : HasData(i)
    \/ \E i \in I : Types(i)
    \/ \E i \in I, type \in in.reads : ReadString(i, type)
    \/ \E i \in I : ReadFilenames(i)
    \/ \E i \in I : CanSmartReplace(i)
    \/ \E i \in I : ReadPlainText(i)
    \/ \E i \in I, a \in BOOLEAN : DocumentFragment(i, a)

(* several instances, few inputs *)
Next == Ops(Inst, Inputs)

Spec == Init /\ [][Next]_vars

(* one instance, many inputs *)
NextData == Ops({1}, DataInputs)

SpecData == Init /\ [][NextData]_vars

(* one instance, the type identifiers and URL lists *)
NextTypes == Ops({1}, TypeInputs)

SpecTypes == Init /\ [][NextTypes]_vars

----------------------------------------------------------------------------
(* Properties *)

LiveInst == {i \in Inst : insts[i].st = "live"}

(* t with every U+00A0 replaced by an ordinary space *)
Normalized(t) == [k \in 1..Len(t) |-> IF t[k] = NBSP THEN SPACE ELSE t[k]]

(* C1: no instance ever holds a readable binding and a writable binding at
   the same time (the assertion of readData) *)
BindingInvariant ==
    \A i \in Inst :
        ~(insts[i].m_readableData # NULL /\ insts[i].m_writableData # NULL)

(* C2: when an instance made by createForDragAndDrop or by createPrivate is
   destroyed while it holds a writable binding, the destructor has freed
   that buffer *)
DestroyFreesDragAndPrivate ==
    (/\ last.op = "destroy"
     /\ last.arg \in {"dragAndDrop", "private"}
     /\ last.res # NULL)
    => heap[last.res].st = "freed"

(* C3: the destructor of an instance that classifies as copy/paste leaves its
   writable buffer as it is (the handle is dropped, nothing is freed), and
   in every mode the destructor leaves the buffer of the readable binding as
   it is *)
DestroyKeepsCopyPasteAndReadable ==
    [][\A i \in Inst :
          (insts[i].st = "live" /\ insts'[i].st = "dead") =>
              LET p == insts[i]
              IN  /\ (isForCopyAndPaste(p) /\ p.m_writableData # NULL)
                        => heap'[p.m_writableData] = heap[p.m_writableData]
                  /\ p.m_readableData # NULL
                        => heap'[p.m_readableData] = heap[p.m_readableData]]_vars

(* a copy/paste instance was destroyed while holding a writable buffer, and
   the buffer is still allocated *)
DestroyedCopyPasteWitness ==
    /\ last.op = "destroy"
    /\ last.arg = "copyAndPaste"
    /\ last.res # NULL
    /\ heap[last.res].st = "live"

(* C4: no writable buffer of one instance is referenced by another instance,
   neither as its writable nor as its readable binding *)
NoAliasing ==
    \A i \in LiveInst, j \in LiveInst :
        (i # j /\ insts[i].m_writableData # NULL) =>
            /\ insts[j].m_writableData # insts[i].m_writableData
            /\ insts[j].m_readableData # insts[i].m_writableData

(* the case of C5: writePlainText was just called on a private instance that
   holds no binding *)
PlainTextOnPrivate ==
    /\ last.op = "writePlainText"
    /\ insts[last.inst].kind = "private"
    /\ insts[last.inst].m_writableData = NULL

(* C5 as stated: after createPrivate and writePlainText(t, s),
   readString("text/plain") returns t with U+00A0 replaced by spaces and
   canSmartReplace is true when s is CanSmartReplace *)
PrivatePlainTextReadsBack ==
    PlainTextOnPrivate =>
        /\ readString(insts[last.inst], TextPlain) = Normalized(last.arg[1])
        /\ last.arg[2] => canSmartReplace

(* C5 amended: after createPrivate and writePlainText(t, s),
   readString("text/plain") on the instance returns the empty string (the text
   went to the host clipboard, not to the instance); read(PasteboardPlainText)
   returns t with U+00A0 replaced by spaces, and canSmartReplace is true
   exactly when s is CanSmartReplace *)
PrivatePlainTextGoesToHost ==
    PlainTextOnPrivate =>
        /\ readString(insts[last.inst], TextPlain) = EmptyString
        /\ readPlainText(insts[last.inst]) = Normalized(last.arg[1])
        /\ canSmartReplace <=> last.arg[2]

(* a text with U+00A0 was written with smart replace to a private instance *)
PrivatePlainTextWitness ==
    /\ PlainTextOnPrivate
    /\ \E k \in 1..Len(last.arg[1]) : last.arg[1][k] = NBSP
    /\ last.arg[2]
    /\ readPlainText(insts[last.inst]) # last.arg[1]

(* C6: after writeSelection, canSmartReplace returns true exactly when
   canSmartCopyOrDelete was true, in copy/paste and in selection mode *)
SmartReplaceFollowsWriteSelection ==
    last.op = "writeSelection" => (canSmartReplace <=> last.arg[2])

(* C7: clear(type) on a copy/paste instance leaves the host clipboard with
   exactly the entries the instance held before the call, minus the cleared
   type (no entry when the instance held none) *)
ClearTypeReflectedOnHost ==
    [][(last'.op = "clearType" /\ isForCopyAndPaste(insts[last'.inst])) =>
          LET w == insts[last'.inst].m_writableData
              before == IF w = NULL THEN EmptyMime ELSE heap[w].data
          IN  hostData("Clipboard")' = removeFormat(before, last'.arg)]_vars

(* clear(type) on a copy/paste instance removed one of two entries, and the
   host clipboard holds the other *)
ClearTypeWitness ==
    /\ last.op = "clearType"
    /\ isForCopyAndPaste(insts[last.inst])
    /\ last.res # NULL
    /\ insts[last.inst].m_writableData = last.res
    /\ host["Clipboard"] = last.res
    /\ formats(hostData("Clipboard")) = {CustomType}
    /\ last.arg = TextPlain

(* C8: when clear(type) on a drag-and-drop instance leaves its writable
   binding without entry, the buffer is freed and dropped, hasData is false
   and types is empty *)
DragClearToEmpty ==
    (/\ last.op = "clearType"
     /\ insts[last.inst].kind = "dragAndDrop"
     /\ last.res # NULL
     /\ insts[last.inst].m_writableData = NULL)
    => /\ heap[last.res].st = "freed"
       /\ ~hasData(insts[last.inst])
       /\ types(insts[last.inst]) = {}

(* C9: writeString(T, s) with T neither plain text nor HTML, then
   readString(T) on the same instance, returns s (stated for the instances
   that hold no readable binding) *)
RawStringRoundTrip ==
    (/\ last.op = "writeString"
     /\ ~isTextMimeType(last.arg[1])
     /\ ~isHtmlMimeType(last.arg[1])
     /\ insts[last.inst].m_readableData = NULL)
    => readString(insts[last.inst], last.arg[1]) = last.arg[2]

(* the case of C10: a drag-and-drop instance bound to a payload that has no
   HTML entry and has text *)
DragTextPayload(i) ==
    /\ insts[i].st = "live"
    /\ isForDragAndDrop(insts[i])
    /\ insts[i].m_readableData # NULL
    /\ heap[insts[i].m_readableData].st = "live"
    /\ ~hasHtml(heap[insts[i].m_readableData].data)
    /\ hasText(heap[insts[i].m_readableData].data)

(* C10 as stated: documentFragment with allowPlainText gives the fragment
   of the payload's plain text and chosePlainText = true, whatever the host
   clipboard holds *)
DragFragmentFromPayload ==
    \A i \in Inst :
        DragTextPayload(i) =>
            \A mp \in BOOLEAN :
                documentFragment(insts[i], TRUE, mp, TRUE) =
                    [fragment |-> [from |-> "text",
                                   source |-> text(heap[insts[i].m_readableData].data)],
                     chosePlainText |-> TRUE]

(* C10 amended: documentFragment reads the host clipboard, not the drag
   payload: for a drag-and-drop instance bound to such a payload, when the
   host clipboard has text and no HTML that gives a fragment,
   documentFragment with allowPlainText sets chosePlainText and returns the
   fragment createFragmentFromText builds from the host clipboard's text *)
DragFragmentFromHost ==
    \A i \in Inst :
        DragTextPayload(i) =>
            \A mp \in BOOLEAN, tb \in BOOLEAN :
                LET md == hostData("Clipboard")
                IN  (/\ hasText(md)
                     /\ ~(hasHtml(md) /\ html(md) # EmptyString /\ mp))
                    => documentFragment(insts[i], TRUE, mp, tb) =
                          [fragment |-> IF tb THEN [from |-> "text", source |-> text(md)]
                                        ELSE NoFragment,
                           chosePlainText |-> TRUE]

(* a drag instance with a text payload while the host clipboard holds another
   text and no HTML *)
DragFragmentWitness ==
    \E i \in Inst :
        /\ DragTextPayload(i)
        /\ hasText(hostData("Clipboard"))
        /\ ~hasHtml(hostData("Clipboard"))
        /\ text(hostData("Clipboard")) # text(heap[insts[i].m_readableData].data)

(* the entries of the binding a read of instance i consults *)
BindingData(i) == heap[readData(insts[i])].data

(* instances whose reads are defined: a binding is present and not deleted *)
Readable(i) ==
    /\ insts[i].st = "live"
    /\ readData(insts[i]) # NULL
    /\ ~Dangling(readData(insts[i]))

(* C11: a ";"-suffixed parameter is tolerated for the two privileged types:
   in every binding state readString("text/html; charset=utf-8") returns what
   readString("text/html") returns and readString("text/plain;charset=utf-8")
   what readString("text/plain") returns; writeString under a parameterised
   identifier fills the native rich-text (text) slot; an identifier that
   continues "text/html" or "text/plain" without ";" is stored and read as a
   raw entry under its literal name *)
ParameterTolerantMatching ==
    /\ \A i \in Inst : Readable(i) =>
          /\ readString(insts[i], TextHtmlCharset) = readString(insts[i], TextHtml)
          /\ readString(insts[i], TextPlainCharset) = readString(insts[i], TextPlain)
          /\ readString(insts[i], TextHtmlLookalike)
                = toUnicodeUtf16(data(BindingData(i), TextHtmlLookalike))
          /\ readString(insts[i], TextPlainLookalike)
                = toUnicodeUtf16(data(BindingData(i), TextPlainLookalike))
    /\ last.op = "writeString" =>
          LET d == heap[insts[last.inst].m_writableData].data
          IN  /\ last.arg[1] \in {TextHtml, TextHtmlCharset}
                    => hasHtml(d) /\ html(d) = last.arg[2]
              /\ last.arg[1] \in {TextPlain, TextPlainCharset}
                    => hasFormat(d, TextPlain) /\ text(d) = last.arg[2]
              /\ last.arg[1] = TextHtmlLookalike
                    => /\ hasFormat(d, TextHtmlLookalike)
                       /\ data(d, TextHtmlLookalike) = toBytes(last.arg[2])
              /\ formats(d) \cap {TextHtmlCharset, TextPlainCharset} = {}

(* markup was written under "text/html; charset=utf-8" and is read back under
   both identifiers, next to an entry under a look-alike identifier *)
ParameterTolerantWitness ==
    /\ last.op = "writeString"
    /\ last.arg[1] = TextHtmlCharset
    /\ Readable(last.inst)
    /\ readString(insts[last.inst], TextHtmlCharset) = last.arg[2]
    /\ readString(insts[last.inst], TextHtml) = last.arg[2]
    /\ hasFormat(BindingData(last.inst), TextHtmlLookalike)
    /\ readString(insts[last.inst], TextHtmlLookalike) # last.arg[2]

(* C12: the text entry that writePlainText and writeSelection push to the
   host has the length of the input, holds no U+00A0, and equals the input at
   every position except that each U+00A0 is an ordinary space *)
NbspNormalizedOnHost ==
    last.op \in {"writePlainText", "writeSelection"} =>
        LET t == last.arg[1]
            md == hostData(targetOf(insts[last.inst]))
        IN  /\ hasFormat(md, TextPlain)
            /\ Len(md[TextPlain].val) = Len(t)
            /\ \A k \in 1..Len(t) :
                  /\ md[TextPlain].val[k] # NBSP
                  /\ md[TextPlain].val[k] = (IF t[k] = NBSP THEN SPACE ELSE t[k])

(* a selected text of two U+00A0 was pushed as two spaces *)
NbspNormalizedWitness ==
    /\ last.op = "writeSelection"
    /\ last.arg[1] = <<NBSP, NBSP>>
    /\ text(hostData(targetOf(insts[last.inst]))) = <<SPACE, SPACE>>

IsFileUrl(u) == u.scheme = "file"

(* C13: readFilenames returns exactly the local paths of the file-scheme
   URLs of the active binding's URL list, in the order of the list, one per
   file URL; URLs of other schemes contribute nothing *)
ReadFilenamesFiltersFileUrls ==
    \A i \in Inst : Readable(i) =>
        LET files == SelectSeq(urls(BindingData(i)), IsFileUrl)
        IN  /\ Len(readFilenames(insts[i])) = Len(files)
            /\ \A k \in 1..Len(files) : readFilenames(insts[i])[k] = files[k].path

(* the binding holds an https URL followed by two file URLs, and the two
   paths come back in that order *)
ReadFilenamesWitness ==
    \E i \in Inst :
        /\ Readable(i)
        /\ urls(BindingData(i)) = <<HttpsUrl, FileUrlB, FileUrl>>
        /\ readFilenames(insts[i]) = <<FileUrlB.path, FileUrl.path>>

NoBinding(p) == p.m_readableData = NULL /\ p.m_writableData = NULL

(* C14: on an instance with neither a readable nor a writable binding,
   hasData is false, types is empty, readString is the empty string for
   every type and readFilenames is the empty list; and such a read leaves
   the instances, the buffers and the host clipboard as they are *)
NoBindingReadsDegrade ==
    [][\A i \in Inst :
          (fault = "none" /\ insts[i].st = "live" /\ NoBinding(insts[i])) =>
              /\ ~hasData(insts[i])
              /\ types(insts[i]) = {}
              /\ \A type \in TypeInputs.reads \cup {CustomType, UriList, SmartPaste} :
                    readString(insts[i], type) = EmptyString
              /\ readFilenames(insts[i]) = << >>
              /\ (\/ HasData(i)
                  \/ Types(i)
                  \/ ReadFilenames(i)
                  \/ \E type \in TypeInputs.reads : ReadString(i, type))
                    => (insts' = insts /\ heap' = heap /\ host' = host)]_vars

(* a drag-and-drop instance wrote, then cleared everything: it holds no
   binding and reports no data while the host clipboard holds some *)
NoBindingWitness ==
    /\ last.op = "clear"
    /\ last.res # NULL
    /\ insts[last.inst].st = "live"
    /\ insts[last.inst].kind = "dragAndDrop"
    /\ NoBinding(insts[last.inst])
    /\ formats(hostData("Clipboard")) # {}
    /\ ~hasData(insts[last.inst])
    /\ readString(insts[last.inst], TextPlain) = EmptyString

(* the entry writeString(type, str) leaves in a QMimeData *)
WrittenEntryIn(md, type, str) ==
    IF isTextMimeType(type) THEN hasFormat(md, TextPlain) /\ text(md) = str
    ELSE IF isHtmlMimeType(type) THEN hasHtml(md) /\ html(md) = str
    ELSE data(md, type) = toBytes(str)

(* the entries the host reports for a target after the step *)
hostDataAfter(mode) == IF host'[mode] = NULL THEN EmptyMime ELSE heap'[host'[mode]].data

(* C15: a write-protocol operation (writeSelection, writePlainText, write
   URL, writeString, clear(type), clear()) on a drag-and-drop or private
   instance leaves the host clipboard as it is, and on a copy/paste or
   selection instance takes effect on the host clipboard: the three pushing
   writes replace the instance's target, writeString leaves its entry there,
   clear() leaves the main clipboard without entry *)
WriteTargetPerMode ==
    [][last'.op \in {"writeSelection", "writePlainText", "writeURL",
                     "writeString", "clearType", "clear"} =>
          LET p == insts[last'.inst]
          IN  /\ p.kind \in {"dragAndDrop", "private"} =>
                    /\ host' = host
                    /\ hostData("Clipboard")' = hostData("Clipboard")
                    /\ hostData("Selection")' = hostData("Selection")
              /\ p.kind \in {"copyAndPaste", "globalSelection"} =>
                    /\ last'.op \in {"writeSelection", "writePlainText", "writeURL"}
                          => host'[targetOf(p)] # host[targetOf(p)]
                    /\ last'.op = "writeString"
                          => WrittenEntryIn(hostDataAfter(targetOf(p)),
                                            last'.arg[1], last'.arg[2])
                    /\ last'.op = "clear"
                          => hostData("Clipboard")' = EmptyMime]_vars

(* the text last handed to writePlainText is what read plain text returns
   on the instance it was written with *)
PlainTextReadsBack ==
    last.op = "writePlainText" =>
        readPlainText(insts[last.inst]) = Normalized(last.arg[1])

(* C16: writePlainText, writeSelection and write URL on a selection-mode
   instance replace the host's selection target and leave the main clipboard
   target as it is; on any other instance they replace the main clipboard
   target and leave the selection target as it is; read plain text returns
   the text of the same target, so the text written by writePlainText is
   what read plain text returns *)
SelectionTargeting ==
    [][/\ last'.op \in {"writePlainText", "writeSelection", "writeURL"} =>
             LET p == insts[last'.inst]
                 mine == IF p.m_selectionMode THEN "Selection" ELSE "Clipboard"
                 other == IF p.m_selectionMode THEN "Clipboard" ELSE "Selection"
             IN  /\ host'[mine] # host[mine]
                 /\ host'[other] = host[other]
                 /\ hostDataAfter(other) = hostData(other)
                 /\ last'.op = "writeURL"
                       => text(hostDataAfter(mine)) = urlString(last'.arg)
                 /\ last'.op # "writeURL"
                       => text(hostDataAfter(mine)) = Normalized(last'.arg[1])
       /\ PlainTextReadsBack'
       /\ \A i \in Inst : insts[i].st = "live" =>
             readPlainText(insts[i]) =
                 text(hostData(IF insts[i].m_selectionMode THEN "Selection"
                               ELSE "Clipboard"))]_vars

(* a selection-mode instance wrote plain text while the main clipboard held
   another text: the selection target holds the new text, the main clipboard
   still the other, and read plain text returns the new text *)
SelectionTargetingWitness ==
    /\ last.op = "writePlainText"
    /\ insts[last.inst].m_selectionMode
    /\ host["Clipboard"] # NULL
    /\ text(hostData("Selection")) = Normalized(last.arg[1])
    /\ text(hostData("Clipboard")) # EmptyString
    /\ text(hostData("Clipboard")) # text(hostData("Selection"))
    /\ readPlainText(insts[last.inst]) = Normalized(last.arg[1])

(* C17: clear() on an instance that classifies as copy/paste leaves the
   host's main clipboard without entry; clear() on any other instance frees
   its writable buffer; in every mode the instance has no writable binding
   afterwards, and hasData is false unless it has a readable binding *)
ClearAllEffect ==
    [][\A i \in Inst :
          (last'.op = "clear" /\ last'.inst = i) =>
              LET p == insts[i]
                  w == p.m_writableData
              IN  /\ isForCopyAndPaste(p) =>
                        /\ host'["Clipboard"] = NULL
                        /\ hostDataAfter("Clipboard") = EmptyMime
                  /\ (~isForCopyAndPaste(p) /\ w # NULL) => heap'[w].st = "freed"
                  /\ insts'[i].m_writableData = NULL
                  /\ insts'[i].m_readableData = NULL => ~hasData(insts[i])'
                  /\ insts'[i].m_readableData = p.m_readableData]_vars

(* clear() on a copy/paste instance that held a writable buffer while the
   host clipboard held data: the clipboard is empty and the handle dropped *)
ClearAllWitness ==
    /\ last.op = "clear"
    /\ insts[last.inst].kind = "copyAndPaste"
    /\ last.res # NULL
    /\ insts[last.inst].m_writableData = NULL
    /\ host["Clipboard"] = NULL
    /\ \E b \in Buf : heap[b].st = "freed" /\ heap[b].freedBy = "host"

(* C18: clear(type) on a drag-and-drop instance, whether or not it frees
   the writable buffer, pushes nothing to the host and leaves both targets of
   the host clipboard, and the entries they hold, as they are *)
DragClearTypeLeavesHost ==
    [][\A i \in Inst :
          (last'.op = "clearType" /\ last'.inst = i /\ isForDragAndDrop(insts[i])) =>
              /\ host' = host
              /\ hostDataAfter("Clipboard") = hostData("Clipboard")
              /\ hostDataAfter("Selection") = hostData("Selection")]_vars

(* C19: the buffer the host clipboard holds in a target has never been
   freed by a pasteboard instance, and no buffer is freed twice *)
NoDanglingHostData ==
    /\ fault # "double-free"
    /\ \A mode \in {"Clipboard", "Selection"} :
          host[mode] # NULL =>
              ~(heap[host[mode]].st = "freed" /\ heap[host[mode]].freedBy = "instance")

(* C20: when an instance gives up its writable buffer (in the destructor, in
   clear() or in a clear(type) that empties it), the buffer has been freed or
   is held by the host clipboard or by a live instance: no buffer is left
   without owner *)
NoLeakedWritableBuffer ==
    (/\ last.op \in {"destroy", "clear", "clearType"}
     /\ last.res # NULL
     /\ (last.op = "destroy" \/ insts[last.inst].m_writableData = NULL))
    => \/ heap[last.res].st = "freed"
       \/ last.res \in {host["Clipboard"], host["Selection"]}
       \/ \E j \in LiveInst : insts[j].m_writableData = last.res

====
